---- MODULE Spec2Model ----
(***************************************************************************)
(* A model of brine.py: the Brinefile parser, the section renderers of the *)
(* Brine class, and main (load, then save_files).                          *)
(*                                                                         *)
(* Strings.  A Python string is modelled as a sequence of symbols.  A      *)
(* symbol is either one of the characters the code inspects                *)
(*     " "  "%"  "#"  "-"  "="  ">"  "."  "/"                              *)
(* or a word: a maximal run of characters the code never inspects (such as *)
(* "nginx" or "rolename").  The string 'nginx=1' is <<"nginx","=","1">>.   *)
(* Indexing, slicing, strip, split and the 'in' test are computed on these *)
(* sequences exactly as Python computes them on characters.                *)
(*                                                                         *)
(* Exceptions.  An operator that models a Python function returns a record *)
(* [exc, val]: exc is "none" when the function returns val, and the name   *)
(* of the exception class when it raises.                                  *)
(***************************************************************************)
EXTENDS Integers, Sequences, FiniteSets, TLC

VARIABLES fp, dirs, pc, parsed, statename, prefix, rendered, file_content,
          written, exc, load_returned

vars == <<fp, dirs, pc, parsed, statename, prefix, rendered, file_content,
          written, exc, load_returned>>

(***************************************************************************)
(* Bounds of the model.                                                    *)
(***************************************************************************)
MaxEntries == 2
MaxLines == 3

(***************************************************************************)
(* Python string primitives.                                               *)
(***************************************************************************)
RECURSIVE LStrip(_)
LStrip(s) == IF s # <<>> /\ Head(s) = " " THEN LStrip(Tail(s)) ELSE s

RECURSIVE RStrip(_)
RStrip(s) == IF s # <<>> /\ s[Len(s)] = " " THEN RStrip(SubSeq(s, 1, Len(s) - 1)) ELSE s

Strip(s) == RStrip(LStrip(s))

\* index of the first occurrence of sep in s, 0 when there is none
Find(s, sep) ==
    LET hits == {i \in 1..(Len(s) - Len(sep) + 1) : SubSeq(s, i, i + Len(sep) - 1) = sep}
    IN IF hits = {} THEN 0 ELSE CHOOSE i \in hits : \A j \in hits : i <= j

\* sep in s
Contains(s, sep) == Find(s, sep) # 0

\* s.split(sep)
RECURSIVE Split(_, _)
Split(s, sep) ==
    LET i == Find(s, sep)
    IN IF i = 0 THEN <<s>>
       ELSE <<SubSeq(s, 1, i - 1)>> \o Split(SubSeq(s, i + Len(sep), Len(s)), sep)

\* s.split(): the whitespace-separated tokens, none of them empty
RECURSIVE SplitWs(_)
SplitWs(s) ==
    LET t == LStrip(s)
        i == Find(t, <<" ">>)
    IN IF t = <<>> THEN <<>>
       ELSE IF i = 0 THEN <<t>>
       ELSE <<SubSeq(t, 1, i - 1)>> \o SplitWs(SubSeq(t, i, Len(t)))

\* s.replace(a, b) for one-symbol a and b
Replace(s, a, b) == [i \in 1..Len(s) |-> IF s[i] = a THEN b ELSE s[i]]

\* os.path.join(a, b) for a relative b
PathJoin(a, b) == IF a = <<>> THEN b ELSE a \o <<"/">> \o b

(***************************************************************************)
(* Brine._parse_brinefile.  key = None is modelled by keyset = FALSE.      *)
(***************************************************************************)
ParseLine(st, raw) ==
    LET line == Strip(raw)
    IN IF Len(line) = 0 \/ line[1] = "#" THEN st
       ELSE IF line[1] = "%"
            THEN [keyset |-> TRUE, key |-> Tail(line),
                  parsed |-> [k \in DOMAIN st.parsed \cup {Tail(line)} |->
                                 IF k = Tail(line) THEN <<>> ELSE st.parsed[k]]]
       \* "elif key:" is false for key = None and for key = ''
       ELSE IF st.keyset /\ st.key # <<>>
            THEN [st EXCEPT !.parsed[st.key] = Append(@, line)]
       ELSE st

RECURSIVE ParseFrom(_, _)
ParseFrom(st, lines) ==
    IF lines = <<>> THEN st ELSE ParseFrom(ParseLine(st, Head(lines)), Tail(lines))

EmptyDict == [k \in {} |-> <<>>]

_parse_brinefile(lines) ==
    ParseFrom([keyset |-> FALSE, key |-> <<>>, parsed |-> EmptyDict], lines).parsed

(***************************************************************************)
(* Values and exceptions.                                                  *)
(***************************************************************************)
\* the BrineError exceptions, told apart by the section their message names
BrineErrors == {"BrineError/identity", "BrineError/description", "BrineError/symlinks",
                "BrineError/sysctl"}

\* a text value: None, or a string made of rendered pieces joined by '\n'
None == [isNone |-> TRUE, pieces |-> <<>>]

Str(pieces) == [isNone |-> FALSE, pieces |-> pieces]

\* Python truthiness of a text value: None and '' are false
Truthy(t) == ~t.isNone /\ t.pieces # <<>>

Return(v) == [exc |-> "none", val |-> v]

Raise(e) == [exc |-> e, val |-> None]

\* the outcome of evaluating res[1], res[2], ... in order: the first
\* exception, or the sequence of all the values
Collect(res) ==
    LET bad == {i \in DOMAIN res : res[i].exc # "none"}
    IN IF bad = {} THEN [exc |-> "none", val |-> [i \in DOMAIN res |-> res[i].val]]
       ELSE [exc |-> res[CHOOSE i \in bad : \A j \in bad : i <= j].exc, val |-> <<>>]

\* "a, b = parts"
Unpack(parts, n) == IF Len(parts) = n THEN Return(parts) ELSE Raise("ValueError")

(***************************************************************************)
(* DOC_URLS and TEMPLATES.  A template is the set of its placeholders;     *)
(* Template.render is string.Template.substitute, which raises KeyError    *)
(* when a placeholder has no value and ignores values it has no            *)
(* placeholder for.                                                        *)
(***************************************************************************)
DOC_URLS ==
    [includes |-> "states/include.html", packages |-> "states/all/salt.states.pkg.html",
     files |-> "states/all/salt.states.file.html", services |-> "states/all/salt.states.service.html",
     cronjobs |-> "states/all/salt.states.cron.html", commands |-> "states/all/salt.states.cmd.html",
     sysctl |-> "states/all/salt.states.sysctl.html"]

Upper ==
    [includes |-> "INCLUDES", packages |-> "PACKAGES", files |-> "FILES", services |-> "SERVICES",
     cronjobs |-> "CRONJOBS", commands |-> "COMMANDS", sysctl |-> "SYSCTL"]

TEMPLATES ==
    [module_header |-> {"module", "doc_link"},
     map_import |-> {"jinja_import_path", "jinja_import_name"},
     file_managed |-> {"state", "name", "path", "mode"},
     file_symlink |-> {"state", "linkname", "targetname"},
     file_directory |-> {"state", "name"},
     file_absent |-> {"state", "name", "filedir"},
     pkg_installed |-> {"state", "pkg"},
     pkg_installed_with_version |-> {"state", "pkg"},
     pkg_removed |-> {"state", "pkg"},
     pkg_removed_with_version |-> {"state", "pkg"},
     service_running |-> {"state", "svc"},
     service_dead |-> {"state", "svc"},
     cmd_run |-> {"state", "title", "cmd"},
     cmd_script |-> {"state", "title", "script"},
     sysctl_present |-> {"state"},
     cron_present |-> {"state", "command", "user", "minute", "hour", "dayofmonth",
                       "month", "dayofweek"}]

Render(tmpl, ctx) ==
    IF TEMPLATES[tmpl] \subseteq DOMAIN ctx
    THEN Return([tmpl |-> tmpl, ctx |-> [k \in TEMPLATES[tmpl] |-> ctx[k]]])
    ELSE Raise("KeyError")

(***************************************************************************)
(* Lookups on self.parsed.                                                 *)
(***************************************************************************)
\* the dictionary key of a section name
Key(name) == <<name>>

\* 'name' in self.parsed
InParsed(name) == Key(name) \in DOMAIN parsed

\* self.parsed.get(name, [])
Get(name) == IF InParsed(name) THEN parsed[Key(name)] ELSE <<>>

has_section(name) == Len(Get(name)) > 0

has_sections(names) == \E name \in names : has_section(name)

\* the (mod, rest) pairs of the named section
section_items(name) ==
    LET items == Get(name)
    IN [i \in 1..Len(items) |->
           LET mod == IF items[i][1] # "-" THEN <<>> ELSE <<"-">>
           IN [mod |-> mod, rest |-> SubSeq(items[i], Len(mod) + 1, Len(items[i]))]]

\* '\n'.join(lines) of a Collect outcome
Joined(col) == IF col.exc = "none" THEN Return(Str(col.val)) ELSE Raise(col.exc)

section_header(name, extra) ==
    IF has_section(name) \/ has_sections(extra)
    THEN Joined(Collect(<<Render("module_header",
                                 [module |-> <<Upper[name]>>, doc_link |-> <<DOC_URLS[name]>>])>>))
    ELSE Return(Str(<<>>))

sls_header ==
    IF ~InParsed("description") THEN Raise("BrineError/description")
    ELSE Return(Str(<<[tmpl |-> "sls_header",
                       ctx |-> [statename |-> statename, description |-> Get("description")]]>>))

section_includes ==
    IF has_section("includes")
    THEN Return(Str(<<[tmpl |-> "include", ctx |-> [items |-> Get("includes")]]>>))
    ELSE Return(Str(<<>>))

(***************************************************************************)
(* packages                                                                *)
(***************************************************************************)
has_package_with_version == \E i \in DOMAIN Get("packages") : Contains(Get("packages")[i], <<"=">>)

\* what the generator yields for one (mod, pkg) pair, or the exception it raises
PackageItem(it) ==
    IF Contains(it.rest, <<"=">>)
    THEN LET u == Unpack(Split(it.rest, <<"=">>), 2)
         IN IF u.exc # "none" THEN Raise(u.exc)
            ELSE Return([mod |-> it.mod, pkg |-> it.rest, pkgname |-> u.val[1], pkgversion |-> u.val[2]])
    ELSE Return([mod |-> it.mod, pkg |-> it.rest, pkgname |-> it.rest, pkgversion |-> <<>>])

package_items == [i \in DOMAIN section_items("packages") |-> PackageItem(section_items("packages")[i])]

PackageTemplate(item) ==
    IF item.pkgversion # <<>>
    THEN IF item.mod # <<"-">> THEN "pkg_installed_with_version" ELSE "pkg_removed_with_version"
    ELSE IF item.mod # <<"-">> THEN "pkg_installed" ELSE "pkg_removed"

section_packages ==
    Joined(Collect([i \in DOMAIN package_items |->
        IF package_items[i].exc # "none" THEN Raise(package_items[i].exc)
        ELSE Render(PackageTemplate(package_items[i].val),
                    [state |-> statename, pkg |-> package_items[i].val.pkgname])]))

generate_versions_map ==
    LET col == Collect(package_items)
        name_version_list == SelectSeq(col.val, LAMBDA item : item.pkgversion # <<>>)
    IN IF col.exc # "none" THEN Raise(col.exc)
       ELSE IF name_version_list # <<>>
            THEN Return(Str(<<[tmpl |-> "versions_map",
                               ctx |-> [name_version_list |->
                                           [i \in DOMAIN name_version_list |->
                                               <<name_version_list[i].pkgname,
                                                 name_version_list[i].pkgversion>>]]]>>))
       ELSE Return(None)

(***************************************************************************)
(* files, directories, symlinks                                            *)
(***************************************************************************)
FileItem(it) ==
    IF Contains(it.rest, <<"=">>)
    THEN LET u == Unpack(Split(it.rest, <<"=">>), 2)
         IN IF u.exc # "none" THEN Raise(u.exc)
            ELSE Return([mod |-> it.mod, filename |-> u.val[1], filemode |-> u.val[2]])
    ELSE Return([mod |-> it.mod, filename |-> it.rest, filemode |-> <<"0644">>])

file_items == [i \in DOMAIN section_items("files") |-> FileItem(section_items("files")[i])]

section_files ==
    Joined(Collect([i \in DOMAIN file_items |->
        IF file_items[i].exc # "none" THEN Raise(file_items[i].exc)
        ELSE IF file_items[i].val.mod # <<"-">>
             THEN Render("file_managed",
                         [state |-> statename,
                          path |-> PathJoin(prefix, Replace(statename, ".", "/")),
                          name |-> file_items[i].val.filename,
                          mode |-> file_items[i].val.filemode])
        ELSE Render("file_absent",
                    [state |-> statename, name |-> file_items[i].val.filename,
                     filedir |-> <<"file">>])]))

section_directories ==
    Joined(Collect([i \in DOMAIN section_items("directories") |->
        IF section_items("directories")[i].mod # <<"-">>
        THEN Render("file_directory",
                    [state |-> statename, name |-> section_items("directories")[i].rest])
        ELSE Render("file_absent",
                    [state |-> statename, name |-> section_items("directories")[i].rest,
                     filedir |-> <<"dir">>])]))

LinkItem(it) ==
    IF Contains(it.rest, <<"-", ">">>)
    THEN LET u == Unpack(Split(it.rest, <<"-", ">">>), 2)
         IN IF u.exc # "none" THEN Raise(u.exc)
            ELSE Return([mod |-> it.mod, link |-> it.rest, linkname |-> u.val[1], targetname |-> u.val[2]])
    ELSE Return([mod |-> it.mod, link |-> it.rest, linkname |-> it.rest, targetname |-> <<>>])

link_items == [i \in DOMAIN section_items("symlinks") |-> LinkItem(section_items("symlinks")[i])]

\* one iteration of the loop of section_symlinks
SymlinkBlock(item) ==
    \* "if 'targetname' in item": a test on the keys of the dictionary
    IF "targetname" \in DOMAIN item
    THEN Render(IF item.mod # <<"-">> THEN "file_symlink" ELSE "file_absent",
                [state |-> statename, linkname |-> item.linkname, targetname |-> item.targetname])
    ELSE Raise("BrineError/symlinks")

section_symlinks ==
    Joined(Collect([i \in DOMAIN link_items |->
        IF link_items[i].exc # "none" THEN Raise(link_items[i].exc)
        ELSE SymlinkBlock(link_items[i].val)]))

(***************************************************************************)
(* sysctl                                                                  *)
(***************************************************************************)
has_sysctl_with_value == \E i \in DOMAIN Get("sysctl") : Contains(Get("sysctl")[i], <<"=">>)

SysctlItem(it) ==
    IF Contains(it.rest, <<"=">>)
    THEN LET u == Unpack(Split(it.rest, <<"=">>), 2)
         IN IF u.exc # "none" THEN Raise(u.exc)
            ELSE Return([mod |-> it.mod, sysctl |-> it.rest, sysctlsetting |-> u.val[1], sysctlvalue |-> u.val[2]])
    ELSE Return([mod |-> it.mod, sysctl |-> it.rest, sysctlsetting |-> it.rest, sysctlvalue |-> <<>>])

sysctl_items == [i \in DOMAIN section_items("sysctl") |-> SysctlItem(section_items("sysctl")[i])]

generate_sysctl_map ==
    LET col == Collect(sysctl_items)
        \* "if item['sysctl']": the entry without its modifier, not its value
        setting_value_list == SelectSeq(col.val, LAMBDA item : item.sysctl # <<>>)
    IN IF col.exc # "none" THEN Raise(col.exc)
       ELSE IF setting_value_list # <<>>
            THEN Return(Str(<<[tmpl |-> "sysctl_map",
                               ctx |-> [setting_value_list |->
                                           [i \in DOMAIN setting_value_list |->
                                               <<setting_value_list[i].sysctlsetting,
                                                 setting_value_list[i].sysctlvalue>>]]]>>))
       ELSE Return(None)

\* the loop of section_sysctl from item i on; lines is the set built so far.
\* Every element added is the same text (the template has the one
\* placeholder ${state}), so the set never has more than one element and
\* its join has one order.
RECURSIVE SysctlLoop(_, _)
SysctlLoop(i, lines) ==
    IF i > Len(sysctl_items)
    THEN Return(Str(IF lines = {} THEN <<>> ELSE <<CHOOSE l \in lines : TRUE>>))
    ELSE IF sysctl_items[i].exc # "none" THEN Raise(sysctl_items[i].exc)
    ELSE IF "sysctlvalue" \in DOMAIN sysctl_items[i].val
         THEN IF sysctl_items[i].val.mod # <<"-">>
              THEN LET r == Render("sysctl_present", [state |-> statename])
                   IN IF r.exc # "none" THEN Raise(r.exc)
                      ELSE SysctlLoop(i + 1, lines \cup {r.val})
              ELSE Return(None)
    ELSE Raise("BrineError/sysctl")

section_sysctl == SysctlLoop(1, {})

(***************************************************************************)
(* services, commands, scripts, cronjobs                                   *)
(***************************************************************************)
section_services ==
    Joined(Collect([i \in DOMAIN section_items("services") |->
        IF section_items("services")[i].mod # <<"-">>
        THEN Render("service_running", [state |-> statename, svc |-> section_items("services")[i].rest])
        ELSE Render("service_dead", [state |-> statename, svc |-> section_items("services")[i].rest])]))

section_commands ==
    Joined(Collect([i \in DOMAIN section_items("commands") |->
        LET cmd == section_items("commands")[i].rest
        IN \* cmd.split()[0]
           IF SplitWs(cmd) = <<>> THEN Raise("IndexError")
           ELSE Render("cmd_run", [state |-> statename, cmd |-> cmd, title |-> SplitWs(cmd)[1]])]))

section_scripts ==
    Joined(Collect([i \in DOMAIN section_items("scripts") |->
        Render("cmd_script", [state |-> statename, script |-> section_items("scripts")[i].rest,
                              title |-> section_items("scripts")[i].rest])]))

\* ' '.join(parts)
RECURSIVE JoinSpace(_)
JoinSpace(parts) ==
    IF parts = <<>> THEN <<>>
    ELSE IF Len(parts) = 1 THEN parts[1]
    ELSE parts[1] \o <<" ">> \o JoinSpace(Tail(parts))

CronBlock(cron) ==
    LET parts == SplitWs(cron)
        u == Unpack(SubSeq(parts, 1, IF Len(parts) < 6 THEN Len(parts) ELSE 6), 6)
    IN IF u.exc # "none" THEN Raise(u.exc)
       ELSE Render("cron_present",
                   [state |-> statename, minute |-> parts[1], hour |-> parts[2],
                    dayofmonth |-> parts[3], month |-> parts[4], dayofweek |-> parts[5],
                    user |-> parts[6], command |-> JoinSpace(SubSeq(parts, 7, Len(parts)))])

section_cronjobs ==
    Joined(Collect([i \in DOMAIN section_items("cronjobs") |->
        CronBlock(section_items("cronjobs")[i].rest)]))

(***************************************************************************)
(* The primary document and the README.                                    *)
(***************************************************************************)
\* self.path, self.versions_map_file and self.sysctl_map_file as load sets them
path == PathJoin(prefix, Replace(statename, ".", "/"))

maps_dir == <<"maps">>

versions_map_file == PathJoin(maps_dir, <<"versions", ".", "map", ".", "jinja">>)

sysctl_map_file == PathJoin(maps_dir, <<"sysctl", ".", "map", ".", "jinja">>)

\* os.path.basename
RECURSIVE Basename(_)
Basename(f) == IF Contains(f, <<"/">>) THEN Basename(SubSeq(f, Find(f, <<"/">>) + 1, Len(f))) ELSE f

MapImport(map_file) ==
    Joined(Collect(<<Render("map_import",
                            [jinja_import_path |-> PathJoin(path, map_file),
                             jinja_import_name |-> Split(Basename(map_file), <<".">>)[1]])>>))

section_versions_map_import ==
    IF has_package_with_version THEN MapImport(versions_map_file) ELSE Return(None)

section_sysctl_map_import ==
    IF has_sysctl_with_value THEN MapImport(sysctl_map_file) ELSE Return(None)

\* the list "sections" of generate_sls, each element with the call it comes from
SlsParts ==
    <<"sls_header", "section_versions_map_import", "section_sysctl_map_import",
      "header_includes", "section_includes", "header_sysctl", "section_sysctl",
      "header_packages", "section_packages", "header_files", "section_directories",
      "section_files", "section_symlinks", "header_services", "section_services",
      "header_commands", "section_commands", "section_scripts", "header_cronjobs",
      "section_cronjobs">>

SlsSections ==
    <<sls_header, section_versions_map_import, section_sysctl_map_import,
      section_header("includes", {}), section_includes,
      section_header("sysctl", {}), section_sysctl,
      section_header("packages", {}), section_packages,
      section_header("files", {"directories"}), section_directories,
      section_files, section_symlinks,
      section_header("services", {}), section_services,
      section_header("commands", {"scripts"}), section_commands,
      section_scripts,
      section_header("cronjobs", {}), section_cronjobs>>

\* '\n'.join(sec for sec in sections if sec): the contributions that are
\* neither None nor '', in the order of the list
RECURSIVE JoinTruthy(_, _)
JoinTruthy(vals, i) ==
    IF i > Len(vals) THEN <<>>
    ELSE (IF Truthy(vals[i]) THEN <<[part |-> SlsParts[i], text |-> vals[i].pieces]>> ELSE <<>>)
         \o JoinTruthy(vals, i + 1)

generate_sls ==
    LET col == Collect(SlsSections)
    IN IF col.exc # "none" THEN Raise(col.exc) ELSE Return(Str(JoinTruthy(col.val, 1)))

generate_readme ==
    IF ~InParsed("description") THEN Return(None)
    ELSE Return(Str(<<[tmpl |-> "readme",
                       ctx |-> [statename |-> statename, description |-> Get("description"),
                                readme |-> Get("readme")]]>>))

(***************************************************************************)
(* The Brinefiles the model loads.                                         *)
(***************************************************************************)
SeqsUpTo(S, n) == UNION {[1..k -> S] : k \in 0..n}

Marker(name) == <<"%", name>>

\* the entries tried in each section
Entries ==
    [sysctl |-> {<<"kx", "=", "1">>, <<"ky">>, <<"-", "ky">>, <<"-", "ky", "=", "2">>,
                 <<"kx", "=", "1", "=", "2">>, <<"-">>},
     packages |-> {<<"nginx">>, <<"nginx", "=", "1">>, <<"-", "nginx">>, <<"-", " ", "nginx">>,
                   <<"-", "nginx", "=", "1">>, <<"nginx", "=">>, <<"nginx", "=", "1", "=", "2">>},
     symlinks |-> {<<"a", "-", ">", "b">>, <<"-", "a", "-", ">", "b">>, <<"a">>, <<"-", "a">>,
                   <<"a", "-", ">", "b", "-", ">", "c">>},
     cronjobs |-> {<<"1", " ", "2", " ", "3", " ", "4", " ", "5">>,
                   <<"1", " ", "2", " ", "3", " ", "4", " ", "5", " ", "root">>,
                   <<"1", " ", "2", " ", "3", " ", "4", " ", "5", " ", "root", " ", "ls", " ", "tmp">>},
     files |-> {<<"motd">>, <<"motd", "=", "0600">>, <<"-", "motd">>},
     directories |-> {<<"opt">>, <<"-", "opt">>},
     services |-> {<<"sshd">>, <<"-", "sshd">>},
     includes |-> {<<"base">>},
     commands |-> {<<"ls", " ", "tmp">>, <<"-">>},
     scripts |-> {<<"setup">>}]

SectionNames == DOMAIN Entries

IdentityChunks ==
    {<<>>,
     <<Marker("rolename")>>,
     <<Marker("elementname")>>,
     <<Marker("rolename"), <<"web">>>>,
     <<Marker("rolename"), <<"web", ".", "front">>>>,
     <<Marker("elementname"), <<"db">>>>,
     <<Marker("rolename"), Marker("elementname"), <<"db">>>>}

DescriptionChunks ==
    {<<>>,
     <<Marker("description"), <<"d">>>>,
     <<Marker("description"), <<"d">>, Marker("readme"), <<"r">>>>}

\* an identity, a description and one section with up to MaxEntries entries
SectionManifests ==
    {id \o de \o <<Marker(name)>> \o es :
        id \in IdentityChunks, de \in DescriptionChunks,
        <<name, es>> \in UNION {{<<n, e>> : e \in SeqsUpTo(Entries[n], MaxEntries)} : n \in SectionNames}}

\* the lines of the free-form Brinefiles: blank, comment, marker and entry
\* lines, with and without surrounding whitespace
RawLines ==
    {<<>>, <<" ">>, <<"#", "a">>, <<" ", "#">>, <<"%">>, <<"%", "a">>, <<"%", "b">>,
     <<" ", "%", "a", " ">>, <<"x">>, <<" ", "y", " ">>, <<"-", "x">>}

RawManifests == SeqsUpTo(RawLines, MaxLines)

\* a Brinefile with one entry in every section the tool renders
FullManifest ==
    <<Marker("rolename"), <<"web">>, Marker("description"), <<"d">>,
      Marker("includes"), <<"base">>, Marker("sysctl"), <<"kx", "=", "1">>,
      Marker("packages"), <<"nginx", "=", "1">>, Marker("files"), <<"motd">>,
      Marker("directories"), <<"opt">>, Marker("symlinks"), <<"a", "-", ">", "b">>,
      Marker("services"), <<"sshd">>, Marker("commands"), <<"ls", " ", "tmp">>,
      Marker("scripts"), <<"setup">>,
      Marker("cronjobs"), <<"1", " ", "2", " ", "3", " ", "4", " ", "5", " ", "root", " ", "ls">>>>

Manifests == SectionManifests \cup RawManifests \cup {FullManifest}

(***************************************************************************)
(* main: load('Brinefile') inside try/except BrineError, then save_files.  *)
(* pc is the position of main; exc is the exception load or save_files     *)
(* raised, "none" when there is none.                                      *)
(***************************************************************************)
NoContent == [k \in {} |-> None]

Init ==
    /\ fp \in Manifests
    /\ dirs \in {{}, {"maps", "files"}}
    /\ pc = "load"
    /\ parsed = EmptyDict
    /\ statename = <<>>
    /\ prefix = <<>>
    /\ rendered = NoContent
    /\ file_content = NoContent
    /\ written = {}
    /\ exc = "none"
    /\ load_returned = FALSE

\* load, lines 181-182
Parse ==
    /\ pc = "load"
    /\ parsed' = _parse_brinefile(fp)
    /\ pc' = "identity"
    /\ UNCHANGED <<fp, dirs, statename, prefix, rendered, file_content, written, exc,
                   load_returned>>

\* load, lines 184-192; statename = None is modelled by <<>> (an entry is
\* never the empty string)
Identity ==
    /\ pc = "identity"
    /\ IF InParsed("rolename")
       THEN IF Get("rolename") = <<>>
            THEN /\ exc' = "IndexError" /\ pc' = "except" /\ UNCHANGED <<statename, prefix>>
            ELSE /\ statename' = Get("rolename")[1] /\ prefix' = <<"role">>
                 /\ pc' = "makedirs" /\ UNCHANGED exc
       ELSE IF InParsed("elementname")
            THEN IF Get("elementname") = <<>>
                 THEN /\ exc' = "IndexError" /\ pc' = "except" /\ UNCHANGED <<statename, prefix>>
                 ELSE /\ statename' = Get("elementname")[1] /\ prefix' = <<"element">>
                      /\ pc' = "makedirs" /\ UNCHANGED exc
       ELSE /\ exc' = "BrineError/identity" /\ pc' = "except" /\ UNCHANGED <<statename, prefix>>
    /\ UNCHANGED <<fp, dirs, parsed, rendered, file_content, written, load_returned>>

\* load, lines 194-210
MakeDirs ==
    /\ pc = "makedirs"
    /\ dirs' = dirs \cup (IF has_package_with_version \/ has_sysctl_with_value THEN {"maps"} ELSE {})
                    \cup (IF has_section("files") THEN {"files"} ELSE {})
    /\ pc' = "generate_sls"
    /\ UNCHANGED <<fp, parsed, statename, prefix, rendered, file_content, written, exc,
                   load_returned>>

\* one element of the dictionary self.file_content of lines 221-228: on an
\* exception the assignment does not happen
Generate(at, kind, result, next) ==
    /\ pc = at
    /\ IF result.exc # "none"
       THEN /\ exc' = result.exc /\ pc' = "except" /\ UNCHANGED rendered
       ELSE /\ rendered' = [k \in DOMAIN rendered \cup {kind} |->
                               IF k = kind THEN result.val ELSE rendered[k]]
            /\ pc' = next /\ UNCHANGED exc
    /\ UNCHANGED <<fp, dirs, parsed, statename, prefix, file_content, written, load_returned>>

\* GenerateSls as a best-effort writer would do it: the primary document is
\* written as soon as it is rendered
GenerateSlsEager ==
    /\ pc = "generate_sls"
    /\ IF generate_sls.exc # "none"
       THEN /\ exc' = generate_sls.exc /\ pc' = "except" /\ UNCHANGED <<rendered, written>>
       ELSE /\ rendered' = [k \in DOMAIN rendered \cup {"sls"} |->
                               IF k = "sls" THEN generate_sls.val ELSE rendered[k]]
            /\ written' = written \cup {"sls"}
            /\ pc' = "generate_readme" /\ UNCHANGED exc
    /\ UNCHANGED <<fp, dirs, parsed, statename, prefix, file_content, load_returned>>

GenerateSls == Generate("generate_sls", "sls", generate_sls, "generate_readme")

GenerateReadme == Generate("generate_readme", "readme", generate_readme, "generate_versions_map")

GenerateVersionsMap ==
    Generate("generate_versions_map", "versions_map", generate_versions_map, "generate_sysctl_map")

GenerateSysctlMap == Generate("generate_sysctl_map", "sysctl_map", generate_sysctl_map, "loaded")

\* the assignment of lines 221-228 and the return of load to main, line 596
LoadReturns ==
    /\ pc = "loaded"
    /\ file_content' = [k \in DOMAIN rendered \cup {"pillar_example", "formula_file"} |->
                           IF k = "pillar_example" THEN Str(<<"pillar.example">>)
                           ELSE IF k = "formula_file" THEN Str(<<"FORMULA">>)
                           ELSE rendered[k]]
    /\ load_returned' = TRUE
    /\ pc' = "save_sls"
    /\ UNCHANGED <<fp, dirs, parsed, statename, prefix, rendered, written, exc>>

\* the directory a file of the given kind is written to, "." for the
\* working directory
DirOf(kind) == IF kind \in {"versions_map", "sysctl_map"} THEN "maps" ELSE "."

\* _save(kind): open(filename, 'w') fails when the directory is missing
_save(at, kind, next) ==
    /\ pc = at
    /\ IF Truthy(file_content[kind])
       THEN IF DirOf(kind) = "." \/ DirOf(kind) \in dirs
            THEN /\ written' = written \cup {kind} /\ pc' = next /\ UNCHANGED exc
            ELSE /\ exc' = "IOError" /\ pc' = "traceback" /\ UNCHANGED written
       ELSE /\ pc' = next /\ UNCHANGED <<written, exc>>
    /\ UNCHANGED <<fp, dirs, parsed, statename, prefix, rendered, file_content, load_returned>>

SaveSls == _save("save_sls", "sls", "save_readme")

SaveReadme == _save("save_readme", "readme", "save_versions_map")

SaveVersionsMap == _save("save_versions_map", "versions_map", "save_sysctl_map")

SaveSysctlMap == _save("save_sysctl_map", "sysctl_map", "done")

\* main, lines 593-595: the handler of BrineError.  e.message exists in
\* Python 2 only; under Python 3 the handler itself raises AttributeError.
\* Either way the process ends with a non-zero status.
HandleBrineError ==
    /\ pc = "except"
    /\ exc \in BrineErrors
    /\ pc' \in {"exit1", "traceback"}
    /\ UNCHANGED <<fp, dirs, parsed, statename, prefix, rendered, file_content, written, exc,
                   load_returned>>

\* any other exception leaves main: the interpreter prints the traceback
Uncaught ==
    /\ pc = "except"
    /\ exc \notin BrineErrors
    /\ pc' = "traceback"
    /\ UNCHANGED <<fp, dirs, parsed, statename, prefix, rendered, file_content, written, exc,
                   load_returned>>

Next ==
    \/ Parse
    \/ Identity
    \/ MakeDirs
    \/ GenerateSls
    \/ GenerateReadme
    \/ GenerateVersionsMap
    \/ GenerateSysctlMap
    \/ LoadReturns
    \/ SaveSls
    \/ SaveReadme
    \/ SaveVersionsMap
    \/ SaveSysctlMap
    \/ HandleBrineError
    \/ Uncaught

Spec == Init /\ [][Next]_vars

Finished == pc \in {"done", "exit1", "traceback"}

(***************************************************************************)
(* Properties.                                                             *)
(***************************************************************************)
Kinds == {"sls", "readme", "versions_map", "sysctl_map"}

\* the identity and the description resolve: no error of another section of
\* the Brinefile can stand in for the one a property is about
Resolves ==
    /\ InParsed("description")
    /\ \/ has_section("rolename")
       \/ ~InParsed("rolename") /\ has_section("elementname")

\* the primary document has a contribution of the named call
HasPart(doc, part) == \E i \in DOMAIN doc.pieces : doc.pieces[i].part = part

\* the text of the contribution of the named call, '' when it has none
PartText(doc, part) ==
    IF HasPart(doc, part)
    THEN doc.pieces[CHOOSE i \in DOMAIN doc.pieces : doc.pieces[i].part = part].text
    ELSE <<>>

\* the named section is the only one of the Brinefile besides the identity,
\* the description and the readme
OnlySection(name) ==
    DOMAIN parsed \subseteq {Key(n) : n \in {"rolename", "elementname", "description", "readme", name}}

\* C1: no artifact file is written unless load has returned normally, with
\* all four render steps (primary document, README, version lookup, sysctl
\* lookup) done; main is in save_files only after load returned; and a run in
\* which load raised, whatever the exception, has written no file.
C1_NoWriteBeforeRender ==
    /\ written # {} => load_returned /\ Kinds \subseteq DOMAIN rendered
    /\ pc \in {"save_sls", "save_readme", "save_versions_map", "save_sysctl_map", "done"}
          => load_returned /\ exc = "none" /\ Kinds \subseteq DOMAIN file_content
    /\ ~load_returned /\ exc # "none" => written = {}
    /\ written \subseteq Kinds

\* load raised after the primary document, the README and the version lookup
\* were rendered; the run has ended and nothing is written
C1_Witness ==
    /\ Finished /\ ~load_returned /\ exc # "none"
    /\ {"sls", "readme", "versions_map"} \subseteq DOMAIN rendered
    /\ written = {}

\* C2: when neither rolename nor elementname is present and non-empty, load
\* fails with the BrineError of the missing identity, before any renderer runs.
C2_MissingIdentity ==
    (pc \notin {"load", "identity"} /\ ~has_section("rolename") /\ ~has_section("elementname"))
        => /\ exc = "BrineError/identity"
           /\ ~load_returned
           /\ rendered = NoContent

\* the mapping the parser is said to return: the stripped lines that are
\* neither blank nor comments; one section for every name of a '%' line; its
\* entries are the lines between the last '%' line of that name and the next
\* '%' line
SignificantLines(lines) ==
    SelectSeq([i \in DOMAIN lines |-> Strip(lines[i])], LAMBDA l : l # <<>> /\ l[1] # "#")

ParseAsClaimed(lines) ==
    LET sig == SignificantLines(lines)
        markers == {i \in DOMAIN sig : sig[i][1] = "%"}
        last(name) == CHOOSE m \in markers :
                          /\ Tail(sig[m]) = name
                          /\ \A j \in markers : Tail(sig[j]) = name => j <= m
        stop(m) == IF \E j \in markers : j > m
                   THEN (CHOOSE j \in markers : j > m /\ \A k \in markers : k > m => j <= k) - 1
                   ELSE Len(sig)
    IN [name \in {Tail(sig[m]) : m \in markers} |-> SubSeq(sig, last(name) + 1, stop(last(name)))]

\* C3: _parse_brinefile returns the mapping described above, whatever the
\* section names are, the empty name included.
C3_ParseAsClaimed == pc # "load" => parsed = ParseAsClaimed(fp)

\* a sysctl entry is negative; a sysctl entry has a value
NegativeSysctl == \E i \in DOMAIN Get("sysctl") : Get("sysctl")[i][1] = "-"

SysctlWithValue ==
    \E i \in DOMAIN Get("sysctl") :
        LET e == Get("sysctl")[i]
        IN Contains(e, <<"=">>) /\ Find(e, <<"=">>) < Len(e)

\* C4: after load, a negative sysctl entry means no sysctl block in the
\* primary document and no sysctl lookup document; and the sysctl lookup
\* document is produced iff some entry has a value and none is negative.
C4_SysctlSuppressed ==
    load_returned =>
        /\ NegativeSysctl => /\ ~HasPart(file_content["sls"], "section_sysctl")
                             /\ ~Truthy(file_content["sysctl_map"])
        /\ Truthy(file_content["sysctl_map"]) <=> (SysctlWithValue /\ ~NegativeSysctl)

\* a symlinks entry has no '->'
SymlinkWithoutTarget == \E i \in DOMAIN Get("symlinks") : ~Contains(Get("symlinks")[i], <<"-", ">">>)

\* C5: a symlinks entry without '->' makes load fail with the BrineError of
\* the symlinks section, and no artifact is produced.
C5_MalformedSymlink ==
    (Resolves /\ SymlinkWithoutTarget)
        => /\ "sls" \notin DOMAIN rendered
           /\ ~load_returned
           /\ written = {}
           /\ Finished => exc = "BrineError/symlinks"

\* a sysctl entry has no '='
SysctlWithoutValue == \E i \in DOMAIN Get("sysctl") : ~Contains(Get("sysctl")[i], <<"=">>)

\* C6: a sysctl entry without '=' makes load fail with the BrineError of the
\* sysctl section; no sysctl block and no sysctl lookup document is produced.
C6_MalformedSysctl ==
    (Resolves /\ SysctlWithoutValue)
        => /\ "sls" \notin DOMAIN rendered
           /\ "sysctl_map" \notin DOMAIN rendered
           /\ ~load_returned
           /\ "sysctl_map" \notin written
           /\ Finished => exc = "BrineError/sysctl"

\* a cronjobs entry has fewer than six whitespace-separated tokens
ShortCron == \E i \in DOMAIN Get("cronjobs") : Len(SplitWs(Get("cronjobs")[i])) < 6

\* C7: a cronjobs entry with fewer than six tokens makes load fail with a
\* BrineError, which main handles, and nothing is written.
C7_MalformedCron ==
    (Resolves /\ ShortCron)
        => /\ ~load_returned
           /\ written = {}
           /\ pc = "except" => exc \in BrineErrors
           /\ Finished => exc \in BrineErrors

\* the block a packages entry is said to give: the template from (negative?,
\* version after '=' non-empty?), the name the entry without its modifier
\* and without its version
PackageAsClaimed(e) ==
    LET neg == e[1] = "-"
        payload == IF neg THEN Tail(e) ELSE e
        eq == Find(payload, <<"=">>)
        name == IF eq = 0 THEN payload ELSE SubSeq(payload, 1, eq - 1)
        version == IF eq = 0 THEN <<>> ELSE SubSeq(payload, eq + 1, Len(payload))
    IN [tmpl |-> IF version # <<>>
                 THEN IF neg THEN "pkg_removed_with_version" ELSE "pkg_installed_with_version"
                 ELSE IF neg THEN "pkg_removed" ELSE "pkg_installed",
        ctx |-> [state |-> statename, pkg |-> name]]

\* C8: section_packages emits one block per packages entry, in entry order,
\* each the block described above; a Brinefile whose only rendered section
\* is packages therefore loads and saves without an exception.
C8_OneBlockPerPackage ==
    Resolves =>
        /\ OnlySection("packages") => exc = "none"
        /\ "sls" \in DOMAIN rendered =>
              PartText(rendered["sls"], "section_packages")
                  = [i \in DOMAIN Get("packages") |-> PackageAsClaimed(Get("packages")[i])]

\* a packages entry carries a version
PackageWithVersion ==
    \E i \in DOMAIN Get("packages") :
        LET e == Get("packages")[i]
        IN Contains(e, <<"=">>) /\ Find(e, <<"=">>) < Len(e)

\* C9: after load, the version lookup document is produced iff a packages
\* entry carries a version, and the primary document imports it iff it is
\* produced.
C9_VersionsImport ==
    load_returned =>
        /\ Truthy(file_content["versions_map"]) <=> PackageWithVersion
        /\ HasPart(file_content["sls"], "section_versions_map_import")
              <=> Truthy(file_content["versions_map"])

\* every symlinks entry is link->target: one '->' with a name on either side
WellFormedLink(e) ==
    LET payload == IF e[1] = "-" THEN Tail(e) ELSE e
        parts == Split(payload, <<"-", ">">>)
    IN Len(parts) = 2 /\ parts[1] # <<>> /\ parts[2] # <<>>

\* the block a link->target entry is said to give
LinkAsClaimed(e) ==
    LET neg == e[1] = "-"
        parts == Split(IF neg THEN Tail(e) ELSE e, <<"-", ">">>)
    IN IF neg
       THEN [tmpl |-> "file_absent",
             ctx |-> [state |-> statename, name |-> parts[1], filedir |-> <<"link">>]]
       ELSE [tmpl |-> "file_symlink",
             ctx |-> [state |-> statename, linkname |-> parts[1], targetname |-> parts[2]]]

\* C10: when every symlinks entry is link->target, section_symlinks renders
\* without error one block per entry, in entry order (file.symlink for a
\* positive entry, file.absent for a negative one); a Brinefile with an
\* identity, a description and only such symlinks yields its primary document.
C10_SymlinkBlocks ==
    (Resolves /\ \A i \in DOMAIN Get("symlinks") : WellFormedLink(Get("symlinks")[i]))
        => /\ OnlySection("symlinks") => exc = "none"
           /\ OnlySection("symlinks") /\ Finished => "sls" \in written
           /\ "sls" \in DOMAIN rendered =>
                 LET blocks == PartText(rendered["sls"], "section_symlinks")
                 IN /\ Len(blocks) = Len(Get("symlinks"))
                    /\ \A i \in DOMAIN Get("symlinks") :
                          LET c == LinkAsClaimed(Get("symlinks")[i])
                          IN /\ blocks[i].tmpl = c.tmpl
                             /\ blocks[i].ctx["state"] = statename
                             /\ IF c.tmpl = "file_absent"
                                THEN blocks[i].ctx["name"] = c.ctx["name"]
                                ELSE /\ blocks[i].ctx["linkname"] = c.ctx["linkname"]
                                     /\ blocks[i].ctx["targetname"] = c.ctx["targetname"]

\* the fixed order of the contributions of the primary document
ClaimedOrder ==
    <<"sls_header", "section_versions_map_import", "section_sysctl_map_import",
      "header_includes", "section_includes", "header_sysctl", "section_sysctl",
      "header_packages", "section_packages",
      "header_files", "section_directories", "section_files", "section_symlinks",
      "header_services", "section_services",
      "header_commands", "section_commands", "section_scripts",
      "header_cronjobs", "section_cronjobs">>

OrderIndex(part) == CHOOSE k \in DOMAIN ClaimedOrder : ClaimedOrder[k] = part

\* the sections that govern each header, and the bodies that belong to it
Governing ==
    [header_includes |-> {"includes"}, header_sysctl |-> {"sysctl"},
     header_packages |-> {"packages"}, header_files |-> {"files", "directories"},
     header_services |-> {"services"}, header_commands |-> {"commands", "scripts"},
     header_cronjobs |-> {"cronjobs"}]

Bodies ==
    [header_includes |-> {"section_includes"}, header_sysctl |-> {"section_sysctl"},
     header_packages |-> {"section_packages"},
     header_files |-> {"section_directories", "section_files", "section_symlinks"},
     header_services |-> {"section_services"},
     header_commands |-> {"section_commands", "section_scripts"},
     header_cronjobs |-> {"section_cronjobs"}]

\* the contributions of the primary document are in the fixed order, each
\* at most once, and none of them is empty
InClaimedOrder(doc) ==
    /\ \A i \in DOMAIN doc.pieces :
          /\ \E k \in DOMAIN ClaimedOrder : ClaimedOrder[k] = doc.pieces[i].part
          /\ doc.pieces[i].text # <<>>
    /\ \A i, j \in DOMAIN doc.pieces :
          i < j => OrderIndex(doc.pieces[i].part) < OrderIndex(doc.pieces[j].part)

\* a header is in the document iff one of its governing sections has an entry
HeaderIffGoverned(doc) ==
    \A h \in DOMAIN Governing :
        HasPart(doc, h) <=> \E name \in Governing[h] : Len(Get(name)) > 0

\* every header has a body of its section in the document, and every body
\* has its header
HeaderWithBody(doc) ==
    \A h \in DOMAIN Bodies :
        /\ HasPart(doc, h) => \E b \in Bodies[h] : HasPart(doc, b)
        /\ \A b \in Bodies[h] : HasPart(doc, b) => HasPart(doc, h)

\* C11: the primary document generate_sls returns has its contributions in
\* the fixed order header, imports, includes, sysctl, packages, files
\* (directories, files, symlinks), services, commands (commands, scripts),
\* cronjobs; a section header is in it iff its governing sections have an
\* entry; empty contributions are left out; no header is without a body of
\* its section and no body is without its header.
C11_HeadersAndBodies ==
    "sls" \in DOMAIN rendered =>
        /\ InClaimedOrder(rendered["sls"])
        /\ HeaderIffGoverned(rendered["sls"])
        /\ HeaderWithBody(rendered["sls"])

\* the two parts of C11 that do not pair headers with bodies
C11_OrderAndHeaders ==
    "sls" \in DOMAIN rendered =>
        /\ InClaimedOrder(rendered["sls"])
        /\ HeaderIffGoverned(rendered["sls"])

====
